---- MODULE Spec2Model ----
(***************************************************************************)
(* RouteIntegrityRegistry (contracts/route-integrity-registry/src/lib.rs). *)
(* A write-once registry of route commitments kept in persistent contract  *)
(* storage, with an event published for every accepted commitment.         *)
(***************************************************************************)
EXTENDS Integers, Sequences, FiniteSets, TLC

(***************************************************************************)
(* u64 values.  TLC integers are 32 bits wide, so a u64 is written as      *)
(* three decimal limbs <<a, b, c>> standing for a*10^18 + b*10^9 + c, each *)
(* of b, c below 10^9.  Addition and comparison are exact on the limbs.    *)
(***************************************************************************)
Limb == 1000 * 1000 * 1000

U64_MAX == <<18, 446744073, 709551615>>

TwoTo64 == <<18, 446744073, 709551616>>

Zero64 == <<0, 0, 0>>

LtU64(x, y) ==
    \/ x[1] < y[1]
    \/ x[1] = y[1] /\ x[2] < y[2]
    \/ x[1] = y[1] /\ x[2] = y[2] /\ x[3] < y[3]

LeU64(x, y) == x = y \/ LtU64(x, y)

\* x + m over the unbounded naturals, for 0 <= m < Limb
Sum(x, m) ==
    LET c == x[3] + m
        b == x[2] + (c \div Limb)
    IN  <<x[1] + (b \div Limb), b % Limb, c % Limb>>

\* x - y over the naturals, for y <= x
Diff(x, y) ==
    LET bc == IF x[3] < y[3] THEN 1 ELSE 0
        c  == x[3] + bc * Limb - y[3]
        bb == IF x[2] < y[2] + bc THEN 1 ELSE 0
        b  == x[2] + bb * Limb - y[2] - bc
    IN  <<x[1] - y[1] - bb, b, c>>

\* does x + m leave the u64 range
Overflows(x, m) == LtU64(U64_MAX, Sum(x, m))

\* x + m modulo 2^64
WrappingAdd(x, m) ==
    IF Overflows(x, m) THEN Diff(Sum(x, m), TwoTo64) ELSE Sum(x, m)

(***************************************************************************)
(* Program constants                                                       *)
(***************************************************************************)
MAX_EXPIRY_DURATION == 315360000

HashLen == 32

(***************************************************************************)
(* Bounds of the model                                                     *)
(***************************************************************************)
\* number of distinct non-zero route hashes offered to the registry
NumRoutes == 2

\* number of contract invocations in a behaviour
MaxCalls == 2

(***************************************************************************)
(* Input domains                                                           *)
(***************************************************************************)
\* BytesN<32> values: the all-zero array and the arrays the tests build
zero_hash == [i \in 1..HashLen |-> 0]

test_hash(seed) == [i \in 1..HashLen |-> IF i = 1 \/ i = HashLen THEN seed ELSE 0]

RouteHashes == {zero_hash} \cup {test_hash(s) : s \in 1..NumRoutes}

\* digests used as rules_hash and solver_version_hash
Digests == {test_hash(2), test_hash(3)}

\* the (rules_hash, solver_version_hash) pairs submitted to commit_route
DigestPairs == {<<test_hash(2), test_hash(3)>>, <<test_hash(3), test_hash(2)>>}

\* invoking accounts, and the address of the registry contract itself
Callers == {"alice", "bob"}

RegistryAddress == "registry"

\* recorded as the caller of a call that has none of interest
NoCaller == "-"

\* ledger timestamps: the tests' fixed timestamp, the largest timestamp for
\* which timestamp + MAX_EXPIRY_DURATION fits a u64, and the last but one u64
T0 == <<0, 1, 700000000>>

THigh == Diff(U64_MAX, <<0, 0, MAX_EXPIRY_DURATION>>)

TTop == Diff(U64_MAX, <<0, 0, 1>>)

Timestamps == {T0, THigh, TTop}

\* expiry arguments: none, now, now + 1, the largest accepted and the first
\* too-far expiry at T0, and the largest u64
Expiries ==
    { Zero64, T0, Sum(T0, 1), Sum(T0, MAX_EXPIRY_DURATION),
      Sum(T0, MAX_EXPIRY_DURATION + 1), U64_MAX }

(***************************************************************************)
(* State                                                                   *)
(***************************************************************************)
VARIABLES
    storage,          \* persistent storage: CommitKey -> Option<RouteCommitment>
    events,           \* the events published so far, in order
    ledger_timestamp, \* env.ledger().timestamp()
    attempted,        \* history: keys commit_route was called with
    committed,        \* history: keys for which commit_route returned Ok
    last,             \* history: the latest call, its clock reading and result
    calls             \* history: number of invocations so far

vars == <<storage, events, ledger_timestamp, attempted, committed, last, calls>>

None == <<>>

Some(v) == <<v>>

(***************************************************************************)
(* Internal helpers and storage primitives                                 *)
(***************************************************************************)
\* variant: true when no byte is zero
is_zero_hash_no_zero_byte(hash) == ~ \E i \in DOMAIN hash : hash[i] = 0

is_zero_hash(hash) == \A i \in DOMAIN hash : hash[i] = 0

storage_has(st, key) == st[key] # None

storage_get(st, key) == st[key]

storage_set(st, key, value) == [st EXCEPT ![key] = Some(value)]

(***************************************************************************)
(* commit_route                                                            *)
(***************************************************************************)
\* variant: expiry < timestamp
expiry_before(expiry, timestamp) == LtU64(expiry, timestamp)

\* expiry <= timestamp
expiry_not_after(expiry, timestamp) == LeU64(expiry, timestamp)

\* timestamp + MAX_EXPIRY_DURATION in u64: the values the sum can take.  An
\* overflowing sum wraps around, or traps when the build checks overflow.
expiry_limit(timestamp) ==
    IF Overflows(timestamp, MAX_EXPIRY_DURATION)
    THEN {Some(WrappingAdd(timestamp, MAX_EXPIRY_DURATION)), None}
    ELSE {Some(Sum(timestamp, MAX_EXPIRY_DURATION))}

\* variant: expiry > limit + 1
expiry_too_far_by_two(expiry, limit) == LtU64(Sum(limit, 1), expiry)

\* expiry > limit
expiry_too_far(expiry, limit) == LtU64(limit, expiry)

\* variant: the validation sequence without the duplicate check
validate_no_duplicate_check(st, route_hash, expiry, timestamp) ==
    IF is_zero_hash(route_hash) THEN {"EmptyRouteHash"}
    ELSE IF expiry # Zero64 THEN
        IF expiry_not_after(expiry, timestamp) THEN {"ExpiredTimestamp"}
        ELSE { IF limit = None THEN "Panic"
               ELSE IF expiry_too_far(expiry, limit[1]) THEN "ExpiryTooFar"
               ELSE "Ok" : limit \in expiry_limit(timestamp) }
    ELSE {"Ok"}

\* variant: the expiry checks also applied to expiry 0
validate_zero_expiry_checked(st, route_hash, expiry, timestamp) ==
    IF is_zero_hash(route_hash) THEN {"EmptyRouteHash"}
    ELSE IF storage_has(st, route_hash) THEN {"DuplicateCommitment"}
    ELSE IF expiry_not_after(expiry, timestamp) THEN {"ExpiredTimestamp"}
    ELSE { IF limit = None THEN "Panic"
           ELSE IF expiry_too_far(expiry, limit[1]) THEN "ExpiryTooFar"
           ELSE "Ok" : limit \in expiry_limit(timestamp) }

\* variant: the validation sequence without the too-far check
validate_no_too_far_check(st, route_hash, expiry, timestamp) ==
    IF is_zero_hash(route_hash) THEN {"EmptyRouteHash"}
    ELSE IF storage_has(st, route_hash) THEN {"DuplicateCommitment"}
    ELSE IF expiry # Zero64 /\ expiry_not_after(expiry, timestamp)
         THEN {"ExpiredTimestamp"}
    ELSE {"Ok"}

\* the validation sequence of commit_route: the results the call can end with
\* ("Panic" is a trap of the contract, not a returned value)
validate(st, route_hash, expiry, timestamp) ==
    IF is_zero_hash(route_hash) THEN {"EmptyRouteHash"}
    ELSE IF storage_has(st, route_hash) THEN {"DuplicateCommitment"}
    ELSE IF expiry # Zero64 THEN
        IF expiry_not_after(expiry, timestamp) THEN {"ExpiredTimestamp"}
        ELSE { IF limit = None THEN "Panic"
               ELSE IF expiry_too_far(expiry, limit[1]) THEN "ExpiryTooFar"
               ELSE "Ok" : limit \in expiry_limit(timestamp) }
    ELSE {"Ok"}

\* variant: the two digests stored in each other's field
RouteCommitment_swapped(rules_hash, solver_version_hash, committer, timestamp, expiry) ==
    [ rules_hash          |-> solver_version_hash,
      solver_version_hash |-> rules_hash,
      committer           |-> committer,
      timestamp           |-> timestamp,
      expiry              |-> expiry ]

\* variant: the expiry stored as the timestamp
RouteCommitment_expiry_as_timestamp(rules_hash, solver_version_hash, committer, timestamp, expiry) ==
    [ rules_hash          |-> rules_hash,
      solver_version_hash |-> solver_version_hash,
      committer           |-> committer,
      timestamp           |-> expiry,
      expiry              |-> expiry ]

RouteCommitment(rules_hash, solver_version_hash, committer, timestamp, expiry) ==
    [ rules_hash          |-> rules_hash,
      solver_version_hash |-> solver_version_hash,
      committer           |-> committer,
      timestamp           |-> timestamp,
      expiry              |-> expiry ]

\* env.current_contract_address(): the registry itself, whoever invokes it
current_contract_address(caller) == RegistryAddress

\* variant: the event carries the rules_hash as its second topic
RouteCommitted_rules_topic(route_hash, commitment) ==
    [ topics |-> <<"commit", commitment.rules_hash>>,
      data   |-> << commitment.rules_hash, commitment.solver_version_hash,
                    commitment.committer, commitment.timestamp,
                    commitment.expiry >> ]

\* the event published for an accepted commitment
RouteCommitted(route_hash, commitment) ==
    [ topics |-> <<"commit", route_hash>>,
      data   |-> << commitment.rules_hash, commitment.solver_version_hash,
                    commitment.committer, commitment.timestamp,
                    commitment.expiry >> ]

\* variant: the write also happens for a key that is already stored
commit_storage_overwrite(st, ret, route_hash, commitment) ==
    IF ret \in {"Ok", "DuplicateCommitment"}
    THEN storage_set(st, route_hash, commitment) ELSE st

\* variant: the write happens before the expiry checks
commit_storage_before_expiry(st, ret, route_hash, commitment) ==
    IF ret \in {"Ok", "ExpiredTimestamp", "ExpiryTooFar"}
    THEN storage_set(st, route_hash, commitment) ELSE st

\* storage after a commit_route call that ended with ret
commit_storage(st, ret, route_hash, commitment) ==
    IF ret = "Ok" THEN storage_set(st, route_hash, commitment) ELSE st

\* variant: the event is published before validation
commit_events_always(ev, ret, route_hash, commitment) ==
    IF ret # "Panic" THEN Append(ev, RouteCommitted(route_hash, commitment)) ELSE ev

\* event log after a commit_route call that ended with ret
commit_events(ev, ret, route_hash, commitment) ==
    IF ret = "Ok" THEN Append(ev, RouteCommitted(route_hash, commitment)) ELSE ev

Call(op, caller, route_hash, rules_hash, solver_version_hash, expiry, now, ret, out) ==
    [ op                  |-> op,
      caller              |-> caller,
      route_hash          |-> route_hash,
      rules_hash          |-> rules_hash,
      solver_version_hash |-> solver_version_hash,
      expiry              |-> expiry,
      now                 |-> now,
      ret                 |-> ret,
      out                 |-> out ]

commit_route(caller, route_hash, rules_hash, solver_version_hash, expiry) ==
    LET timestamp  == ledger_timestamp
        committer  == current_contract_address(caller)
        commitment == RouteCommitment(rules_hash, solver_version_hash,
                                      committer, timestamp, expiry)
    IN  /\ calls < MaxCalls
        /\ \E ret \in validate(storage, route_hash, expiry, timestamp) :
              /\ storage' = commit_storage(storage, ret, route_hash, commitment)
              /\ events' = commit_events(events, ret, route_hash, commitment)
              /\ committed' = IF ret = "Ok" THEN committed \cup {route_hash}
                              ELSE committed
              /\ attempted' = attempted \cup {route_hash}
              /\ last' = Call("commit_route", caller, route_hash, rules_hash,
                              solver_version_hash, expiry, ledger_timestamp,
                              ret, None)
        /\ calls' = calls + 1
        /\ UNCHANGED ledger_timestamp

(***************************************************************************)
(* Queries                                                                 *)
(***************************************************************************)
\* variant: an entry whose expiry has passed is reported as absent
get_commit_result_unexpired(st, route_hash) ==
    LET found == storage_get(st, route_hash)
    IN  IF /\ found # None
           /\ \/ found[1].expiry = Zero64
              \/ LtU64(ledger_timestamp, found[1].expiry)
        THEN <<"Ok", found>> ELSE <<"NotFound", None>>

\* Result<RouteCommitment, RegistryError>: <<"Ok", Some(c)>> or <<"NotFound", None>>
get_commit_result(st, route_hash) ==
    LET found == storage_get(st, route_hash)
    IN  IF found # None THEN <<"Ok", found>> ELSE <<"NotFound", None>>

has_commit_result(st, route_hash) == storage_has(st, route_hash)

\* variant: one matching digest is enough
verify_commit_result_either(st, route_hash, expected_rules_hash, expected_solver_hash) ==
    LET res == get_commit_result(st, route_hash)
    IN  IF res[1] = "Ok"
        THEN \/ res[2][1].rules_hash = expected_rules_hash
             \/ res[2][1].solver_version_hash = expected_solver_hash
        ELSE FALSE

verify_commit_result(st, route_hash, expected_rules_hash, expected_solver_hash) ==
    LET res == get_commit_result(st, route_hash)
    IN  IF res[1] = "Ok"
        THEN /\ res[2][1].rules_hash = expected_rules_hash
             /\ res[2][1].solver_version_hash = expected_solver_hash
        ELSE FALSE

BoolRet(b) == IF b THEN "true" ELSE "false"

\* variant: the read takes the entry out of storage
get_commit_taking(route_hash) ==
    LET res == get_commit_result(storage, route_hash)
    IN  /\ calls < MaxCalls
        /\ last' = Call("get_commit", NoCaller, route_hash, zero_hash, zero_hash,
                        Zero64, ledger_timestamp, res[1], res[2])
        /\ storage' = [storage EXCEPT ![route_hash] = None]
        /\ calls' = calls + 1
        /\ UNCHANGED <<events, ledger_timestamp, attempted, committed>>

get_commit(route_hash) ==
    LET res == get_commit_result(storage, route_hash)
    IN  /\ calls < MaxCalls
        /\ last' = Call("get_commit", NoCaller, route_hash, zero_hash, zero_hash,
                        Zero64, ledger_timestamp, res[1], res[2])
        /\ calls' = calls + 1
        /\ UNCHANGED <<storage, events, ledger_timestamp, attempted, committed>>

has_commit(route_hash) ==
    /\ calls < MaxCalls
    /\ last' = Call("has_commit", NoCaller, route_hash, zero_hash, zero_hash,
                    Zero64, ledger_timestamp,
                    BoolRet(has_commit_result(storage, route_hash)), None)
    /\ calls' = calls + 1
    /\ UNCHANGED <<storage, events, ledger_timestamp, attempted, committed>>

verify_commit(route_hash, expected_rules_hash, expected_solver_hash) ==
    /\ calls < MaxCalls
    /\ last' = Call("verify_commit", NoCaller, route_hash, expected_rules_hash,
                    expected_solver_hash, Zero64, ledger_timestamp,
                    BoolRet(verify_commit_result(storage, route_hash,
                                expected_rules_hash, expected_solver_hash)),
                    None)
    /\ calls' = calls + 1
    /\ UNCHANGED <<storage, events, ledger_timestamp, attempted, committed>>

(***************************************************************************)
(* The host ledger closes: the timestamp moves to a later value            *)
(***************************************************************************)
close_ledger(t) ==
    /\ LtU64(ledger_timestamp, t)
    /\ ledger_timestamp' = t
    /\ UNCHANGED <<storage, events, attempted, committed, last, calls>>

(***************************************************************************)
(* Specification                                                           *)
(***************************************************************************)
Init ==
    /\ storage = [k \in RouteHashes |-> None]
    /\ events = <<>>
    /\ ledger_timestamp = T0
    /\ attempted = {}
    /\ committed = {}
    /\ last = Call("none", NoCaller, zero_hash, zero_hash, zero_hash,
                   Zero64, T0, "none", None)
    /\ calls = 0

Next ==
    \/ \E c \in Callers, k \in RouteHashes, d \in DigestPairs, e \in Expiries :
          commit_route(c, k, d[1], d[2], e)
    \/ \E k \in RouteHashes : get_commit(k)
    \/ \E k \in RouteHashes : has_commit(k)
    \/ \E k \in RouteHashes, r \in Digests, s \in Digests :
          verify_commit(k, r, s)
    \/ \E t \in Timestamps : close_ledger(t)

Spec == Init /\ [][Next]_vars

(***************************************************************************)
(* Properties                                                              *)
(***************************************************************************)
RegistryErrors ==
    {"EmptyRouteHash", "DuplicateCommitment", "ExpiredTimestamp", "ExpiryTooFar"}

\* the step is an invocation of the contract
Invocation == calls' = calls + 1

\* the step is an invocation of commit_route
CommitStep == Invocation /\ last'.op = "commit_route"

\* C1: once commit_route has returned Ok for a key, every later commit_route
\* on that key, whatever its other arguments and the clock, returns
\* DuplicateCommitment and leaves the stored entries as they were.
C1_DuplicateRejected ==
    [][ (CommitStep /\ last'.route_hash \in committed)
          => /\ last'.ret = "DuplicateCommitment"
             /\ storage' = storage ]_vars

\* a second commit on a stored key, at a later clock and with other digests
\* and another expiry, was rejected as a duplicate
C1_Witness ==
    /\ last.op = "commit_route"
    /\ last.ret = "DuplicateCommitment"
    /\ last.route_hash \in committed
    /\ storage[last.route_hash] # None
    /\ storage[last.route_hash][1].timestamp # last.now
    /\ storage[last.route_hash][1].rules_hash # last.rules_hash
    /\ storage[last.route_hash][1].expiry # last.expiry

\* C2: a key that is Committed stays Committed with the same value in every
\* step, and a key leaves Absent only in a commit_route step on that key that
\* returns Ok.
C2_KeyLifecycle ==
    [][ \A k \in RouteHashes :
          /\ storage[k] # None => storage'[k] = storage[k]
          /\ (storage[k] = None /\ storage'[k] # None)
               => /\ CommitStep
                  /\ last'.route_hash = k
                  /\ last'.ret = "Ok" ]_vars

\* a Committed key has been queried at a later clock and is still stored
C2_Witness ==
    /\ last.op = "verify_commit"
    /\ storage[last.route_hash] # None
    /\ LtU64(storage[last.route_hash][1].timestamp, last.now)

\* C3: commit_route on the all-zero route_hash returns EmptyRouteHash whatever
\* the other arguments, the clock and the registry hold, and no entry is ever
\* stored under the all-zero key.
C3_ZeroHashRejected ==
    /\ (last.op = "commit_route" /\ last.route_hash = zero_hash)
          => last.ret = "EmptyRouteHash"
    /\ storage[zero_hash] = None

\* the all-zero key was offered with no expiry to a registry that holds an
\* entry, and was rejected
C3_Witness ==
    /\ last.op = "commit_route"
    /\ last.route_hash = zero_hash
    /\ last.expiry = Zero64
    /\ last.ret = "EmptyRouteHash"
    /\ committed # {}

\* C4: after commit_route(k, r, s, e) returned Ok at clock value t,
\* has_commit(k) is true and get_commit(k) returns Ok with rules_hash r,
\* solver_version_hash s, timestamp t and expiry e.
C4_CommitThenRead ==
    (last.op = "commit_route" /\ last.ret = "Ok")
       => /\ has_commit_result(storage, last.route_hash)
          /\ get_commit_result(storage, last.route_hash)[1] = "Ok"
          /\ LET c == get_commit_result(storage, last.route_hash)[2][1]
             IN  /\ c.rules_hash = last.rules_hash
                 /\ c.solver_version_hash = last.solver_version_hash
                 /\ c.timestamp = last.now
                 /\ c.expiry = last.expiry

\* a commit with a nonzero expiry was accepted and the clock has moved on
C4_Witness ==
    /\ last.op = "commit_route"
    /\ last.ret = "Ok"
    /\ last.expiry # Zero64
    /\ ledger_timestamp # last.now

\* C5: verify_commit(k, r, s) is true exactly when k is Committed and the
\* stored rules_hash is r and the stored solver_version_hash is s; otherwise
\* it is false, and it never ends with an error.
C5_VerifyIff ==
    /\ \A k \in RouteHashes, r \in Digests \cup {zero_hash},
          s \in Digests \cup {zero_hash} :
          verify_commit_result(storage, k, r, s)
             = ( /\ storage[k] # None
                 /\ storage[k][1].rules_hash = r
                 /\ storage[k][1].solver_version_hash = s )
    /\ last.op = "verify_commit"
          => /\ last.ret \in {"true", "false"}
             /\ (last.ret = "true")
                  = ( /\ storage[last.route_hash] # None
                      /\ storage[last.route_hash][1].rules_hash = last.rules_hash
                      /\ storage[last.route_hash][1].solver_version_hash
                            = last.solver_version_hash )

\* verify_commit answered false for a Committed key whose rules_hash matched
\* and whose solver_version_hash did not
C5_Witness ==
    /\ last.op = "verify_commit"
    /\ last.ret = "false"
    /\ storage[last.route_hash] # None
    /\ storage[last.route_hash][1].rules_hash = last.rules_hash
    /\ storage[last.route_hash][1].solver_version_hash # last.solver_version_hash

\* C6: for every key for which no commit_route has returned Ok, also when
\* commit_route calls on it were rejected, get_commit returns NotFound and
\* has_commit returns false; and has_commit is true exactly when get_commit
\* returns Ok.
C6_AbsentNotFound ==
    /\ \A k \in RouteHashes :
          /\ k \notin committed
               => /\ get_commit_result(storage, k) = <<"NotFound", None>>
                  /\ ~ has_commit_result(storage, k)
          /\ has_commit_result(storage, k)
               = (get_commit_result(storage, k)[1] = "Ok")
    /\ (last.op = "get_commit" /\ last.route_hash \notin committed)
          => last.ret = "NotFound"
    /\ (last.op = "has_commit" /\ last.route_hash \notin committed)
          => last.ret = "false"

\* get_commit returned NotFound for a non-zero key on which only a rejected
\* commit_route had been made
C6_Witness ==
    /\ last.op = "get_commit"
    /\ last.ret = "NotFound"
    /\ last.route_hash # zero_hash
    /\ last.route_hash \in attempted \ committed

\* the first check of the order EmptyRouteHash, DuplicateCommitment,
\* ExpiredTimestamp, ExpiryTooFar that the arguments fail, over the naturals
FirstFailingCheck(st, route_hash, expiry, now) ==
    IF route_hash = zero_hash THEN "EmptyRouteHash"
    ELSE IF st[route_hash] # None THEN "DuplicateCommitment"
    ELSE IF expiry # Zero64 /\ LeU64(expiry, now) THEN "ExpiredTimestamp"
    ELSE IF expiry # Zero64 /\ LtU64(Sum(now, MAX_EXPIRY_DURATION), expiry)
         THEN "ExpiryTooFar"
    ELSE "none"

\* C7: every commit_route that fails reports the first failing check of the
\* order EmptyRouteHash, DuplicateCommitment, ExpiredTimestamp, ExpiryTooFar.
C7_FirstFailingCheck ==
    [][ (CommitStep /\ last'.ret # "Ok")
          => last'.ret = FirstFailingCheck(storage, last'.route_hash,
                                           last'.expiry, last'.now) ]_vars

\* C8: a commit_route call that returns an error leaves the stored keys, the
\* stored values and the event log as they were.
C8_ErrorNoEffect ==
    [][ (CommitStep /\ last'.ret \in RegistryErrors)
          => /\ storage' = storage
             /\ events' = events ]_vars

\* a commit on a fresh key was rejected for its expiry by a registry that
\* holds an entry and has published its event
C8_Witness ==
    /\ last.op = "commit_route"
    /\ last.ret \in {"ExpiredTimestamp", "ExpiryTooFar"}
    /\ Len(events) = 1
    /\ Cardinality({k \in RouteHashes : storage[k] # None}) = 1

\* C9: commit_route on a non-zero key that is not Committed, with a nonzero
\* expiry less than or equal to the clock value of the call, returns
\* ExpiredTimestamp and stores nothing.
C9_Expired ==
    [][ ( /\ CommitStep
          /\ last'.route_hash # zero_hash
          /\ storage[last'.route_hash] = None
          /\ last'.expiry # Zero64
          /\ LeU64(last'.expiry, last'.now) )
          => /\ last'.ret = "ExpiredTimestamp"
             /\ storage' = storage ]_vars

\* a commit whose expiry equals the clock value was rejected as expired
C9_Witness ==
    /\ last.op = "commit_route"
    /\ last.ret = "ExpiredTimestamp"
    /\ last.expiry = last.now
    /\ storage[last.route_hash] = None

\* C10: commit_route on a non-zero key that is not Committed, with a nonzero
\* expiry greater than the clock value plus MAX_EXPIRY_DURATION, returns
\* ExpiryTooFar and stores nothing.
C10_TooFar ==
    [][ ( /\ CommitStep
          /\ last'.route_hash # zero_hash
          /\ storage[last'.route_hash] = None
          /\ last'.expiry # Zero64
          /\ LtU64(Sum(last'.now, MAX_EXPIRY_DURATION), last'.expiry) )
          => /\ last'.ret = "ExpiryTooFar"
             /\ storage' = storage ]_vars

\* a commit whose expiry is one second beyond the window was rejected
C10_Witness ==
    /\ last.op = "commit_route"
    /\ last.ret = "ExpiryTooFar"
    /\ last.expiry = Sum(last.now, MAX_EXPIRY_DURATION + 1)
    /\ storage[last.route_hash] = None

\* C11: commit_route with expiry 0 on a non-zero key that is not Committed
\* returns Ok at every clock value, and the entry it stores has expiry 0.
C11_NoExpiryAccepted ==
    [][ ( /\ CommitStep
          /\ last'.route_hash # zero_hash
          /\ storage[last'.route_hash] = None
          /\ last'.expiry = Zero64 )
          => /\ last'.ret = "Ok"
             /\ storage'[last'.route_hash] # None
             /\ storage'[last'.route_hash][1].expiry = Zero64 ]_vars

\* a commit with expiry 0 was accepted at a clock value for which
\* timestamp + MAX_EXPIRY_DURATION does not fit a u64
C11_Witness ==
    /\ last.op = "commit_route"
    /\ last.ret = "Ok"
    /\ last.expiry = Zero64
    /\ Overflows(last.now, MAX_EXPIRY_DURATION)
    /\ storage[last.route_hash] # None
    /\ storage[last.route_hash][1].expiry = Zero64

\* the call evaluated timestamp + MAX_EXPIRY_DURATION
SumEvaluated ==
    /\ last.op = "commit_route"
    /\ last.expiry # Zero64
    /\ last.ret \in {"Ok", "ExpiryTooFar", "Panic"}

\* C12: every commit_route call, for every u64 clock value and expiry, ends
\* with Ok or one of the typed errors and never with a fault, and the sum
\* timestamp + MAX_EXPIRY_DURATION it computes stays within the u64 range.
C12_NoFault ==
    /\ last.op = "commit_route" => last.ret \in {"Ok"} \cup RegistryErrors
    /\ SumEvaluated => ~ Overflows(last.now, MAX_EXPIRY_DURATION)

\* C13: every stored commitment has expiry 0, or timestamp < expiry and
\* expiry <= timestamp + MAX_EXPIRY_DURATION.
C13_StoredWindow ==
    \A k \in RouteHashes :
       storage[k] # None =>
          LET c == storage[k][1]
          IN  \/ c.expiry = Zero64
              \/ /\ LtU64(c.timestamp, c.expiry)
                 /\ LeU64(c.expiry, Sum(c.timestamp, MAX_EXPIRY_DURATION))

\* an entry is stored whose expiry is the last value of its window, and one
\* whose expiry is the first
C13_Witness ==
    /\ \E k \in RouteHashes :
          /\ storage[k] # None
          /\ storage[k][1].expiry = Sum(storage[k][1].timestamp, MAX_EXPIRY_DURATION)
    /\ \E k \in RouteHashes :
          /\ storage[k] # None
          /\ storage[k][1].expiry = Sum(storage[k][1].timestamp, 1)

\* the event log entry that corresponds to the entry stored under a key
EventOf(k) ==
    [ topics |-> <<"commit", k>>,
      data   |-> << storage[k][1].rules_hash, storage[k][1].solver_version_hash,
                    storage[k][1].committer, storage[k][1].timestamp,
                    storage[k][1].expiry >> ]

StoredKeys == {k \in RouteHashes : storage[k] # None}

\* C14: the event log holds exactly one event per Committed key, with topic
\* ("commit", route_hash) and the stored entry as payload; an event is
\* appended at the end of the log only by a commit_route call that returns Ok
\* and has written its entry, and no other step changes the log.
C14_EventsMatchStorage ==
    /\ [] ( /\ Len(events) = Cardinality(StoredKeys)
            /\ \A k \in StoredKeys :
                  \E i \in 1..Len(events) : events[i] = EventOf(k) )
    /\ [][ \/ events' = events
           \/ /\ CommitStep
              /\ last'.ret = "Ok"
              /\ storage[last'.route_hash] = None
              /\ storage'[last'.route_hash] # None
              /\ events' = Append(events,
                    [ topics |-> <<"commit", last'.route_hash>>,
                      data   |-> << last'.rules_hash, last'.solver_version_hash,
                                    storage'[last'.route_hash][1].committer,
                                    last'.now, last'.expiry >> ]) ]_vars

\* two commits were accepted and the log holds their two events in the order
\* of the calls
C14_Witness ==
    /\ Len(events) = 2
    /\ last.op = "commit_route"
    /\ last.ret = "Ok"
    /\ events[2].topics = <<"commit", last.route_hash>>
    /\ events[1].topics # events[2].topics

\* C15: the committer recorded in a stored commitment and in its event is the
\* address of the caller that invoked commit_route (so that commits made by
\* different callers record different committers).
C15_CommitterIsCaller ==
    (last.op = "commit_route" /\ last.ret = "Ok")
       => /\ storage[last.route_hash][1].committer = last.caller
          /\ events[Len(events)].data[3] = last.caller

\* C16: the timestamps of the stored entries do not decrease in the order of
\* their insertion, and the timestamp a commit_route call stores is the
\* ledger timestamp at that call.
C16_TimestampsMonotone ==
    /\ [] ( \A i \in 1..Len(events), j \in 1..Len(events) :
               i < j => LeU64(storage[events[i].topics[2]][1].timestamp,
                              storage[events[j].topics[2]][1].timestamp) )
    /\ [][ (CommitStep /\ last'.ret = "Ok")
             => storage'[last'.route_hash][1].timestamp = ledger_timestamp ]_vars

\* two entries were inserted at different clock values
C16_Witness ==
    /\ Len(events) = 2
    /\ LtU64(storage[events[1].topics[2]][1].timestamp,
             storage[events[2].topics[2]][1].timestamp)
    /\ storage[events[2].topics[2]][1].timestamp = ledger_timestamp

\* C17: get_commit, has_commit and verify_commit leave the stored keys, the
\* stored values and the event log as they were, whatever they return.
C17_QueriesReadOnly ==
    [][ (Invocation /\ last'.op \in {"get_commit", "has_commit", "verify_commit"})
          => /\ storage' = storage
             /\ events' = events ]_vars

\* get_commit returned an entry from a registry that still holds it
C17_Witness ==
    /\ last.op = "get_commit"
    /\ last.ret = "Ok"
    /\ last.out = storage[last.route_hash]
    /\ Len(events) = 1

\* the acceptance condition of commit_route, over the naturals
Acceptable(st, route_hash, expiry, now) ==
    /\ route_hash # zero_hash
    /\ st[route_hash] = None
    /\ \/ expiry = Zero64
       \/ /\ LtU64(now, expiry)
          /\ LeU64(expiry, Sum(now, MAX_EXPIRY_DURATION))

\* C19: commit_route returns Ok if and only if the route_hash is non-zero,
\* the key is Absent, and expiry is 0 or now < expiry <= now +
\* MAX_EXPIRY_DURATION.
C19_OkIff ==
    [][ CommitStep
          => ( (last'.ret = "Ok")
                 = Acceptable(storage, last'.route_hash, last'.expiry, last'.now) )
      ]_vars

\* the call queried a Committed key whose nonzero expiry had passed
ExpiredQueried ==
    /\ last.op \in {"get_commit", "has_commit", "verify_commit"}
    /\ storage[last.route_hash] # None
    /\ storage[last.route_hash][1].expiry # Zero64
    /\ LtU64(storage[last.route_hash][1].expiry, last.now)

\* C20: the queries do not depend on the clock: for a Committed key, also
\* one whose nonzero expiry has passed, has_commit returns true, get_commit
\* returns the stored entry, and verify_commit with the stored digests
\* returns true.
C20_QueriesIgnoreClock ==
    storage[last.route_hash] # None
       => /\ last.op = "has_commit" => last.ret = "true"
          /\ last.op = "get_commit"
                => last.ret = "Ok" /\ last.out = storage[last.route_hash]
          /\ ( /\ last.op = "verify_commit"
               /\ last.rules_hash = storage[last.route_hash][1].rules_hash
               /\ last.solver_version_hash
                     = storage[last.route_hash][1].solver_version_hash )
                => last.ret = "true"

\* get_commit returned the entry of a key whose expiry had passed
C20_Witness ==
    /\ ExpiredQueried
    /\ last.op = "get_commit"
    /\ last.ret = "Ok"

====
